---- MODULE Spec2Model ----
(***************************************************************************)
(* catty-player: the playback engine (src/src/audio.rs), the player state  *)
(* and its key handlers (src/src/player.rs), the main loop                 *)
(* (src/src/main.rs) and the spectrum analyzer (src/src/visualizer.rs).    *)
(*                                                                         *)
(* Time is in milliseconds.  Volumes are in hundredths (0.2 is 20).  Bar   *)
(* heights and the smoothing factor are fixed-point numbers: a bar is a    *)
(* multiple of 1/One, the smoothing factor a multiple of 1/SmoothDen, and  *)
(* a product is rounded to the nearest multiple, ties to even, which is    *)
(* the rounding rule of the f32 arithmetic of the source (f32 has the      *)
(* same absolute spacing in its subnormal range, where the unit is         *)
(* 2^-149).                                                                *)
(*                                                                         *)
(* A sample is identified by the play() call that decoded it and its frame *)
(* index in the track; a buffer is a sequence of runs [s, lo, hi] of       *)
(* consecutive samples lo..hi of session s.                                *)
(***************************************************************************)
EXTENDS Integers, Sequences, FiniteSets, TLC

VARIABLES
    now,               \* the wall clock (Instant::now()), in ms
    db,                \* MusicDatabase: the scanned tracks
    budget,            \* the model's bound on successful play() calls in this run
    sink,              \* AudioPlayer.sink: the rodio Sink
    current_duration,  \* AudioPlayer.current_duration
    sample_buffer,     \* AudioPlayer.sample_buffer
    elapsed_millis,    \* AudioPlayer.elapsed_millis
    start_time,        \* AudioPlayer.start_time
    pause_elapsed,     \* AudioPlayer.pause_elapsed
    bridges,           \* the capture threads spawned by play(), in spawn order
    stopped,           \* history: stop() was called after the latest successful play()
    queue,             \* PlayerState.queue (indices into db)
    current_track_index, \* PlayerState.current_track_index
    list_state,        \* PlayerState.list_state
    is_playing,        \* PlayerState.is_playing
    volume,            \* PlayerState.volume
    shuffle,           \* PlayerState.shuffle
    played_indices,    \* PlayerState.played_indices
    loopC,             \* PlayerState.loopC
    bars,              \* Visualizer.bars
    bar_count,         \* Visualizer.bar_count
    smoothing,         \* Visualizer.smoothing, in units of 1/SmoothDen
    audio_buffer,      \* Visualizer.audio_buffer
    pc,                \* the main loop's position
    last,              \* history: the last engine operation, bridge step or passage of time
    vlast              \* history: the last Visualizer::update

audioVars == <<sink, current_duration, sample_buffer, elapsed_millis,
               start_time, pause_elapsed, bridges, stopped>>
playerVars == <<queue, current_track_index, list_state, is_playing, volume,
                shuffle, played_indices, loopC>>
vizVars == <<bars, bar_count, smoothing, audio_buffer>>
vars == <<now, db, budget, audioVars, playerVars, vizVars, pc, last, vlast>>

(***************************************************************************)
(* Bounds of the model.                                                    *)
(***************************************************************************)
MaxAdvances == 3      \* passages of time
MaxPlays == 2         \* successful play() calls
MaxSeekAhead == 1     \* seek_forward steps the clock may be ahead of the wall clock
MaxBars == 2          \* largest configured bar_count
MaxChannels == 3      \* channels of a decoder
MaxTmp == 4           \* interleaved samples in one pulled chunk

TimeSteps == {1500}
Horizon == MaxAdvances * 1500

(***************************************************************************)
(* Program constants.                                                      *)
(***************************************************************************)
SeekStep == 10000        \* player.rs: 10_000 ms
ChunkFrames == 1024      \* audio.rs: chunk_frames
BufferCap == 8192        \* audio.rs: buf.len() > 8192
TrimCount == 4096        \* audio.rs: buf.drain(..4096)
MaxFft == 2048           \* visualizer.rs: 2048.min(...)
InitialVolume == 20      \* player.rs: initial_volume = 0.2
VolumeStep == 5          \* player.rs: 0.05
FullVolume == 100        \* player.rs: .min(1.0)
SinkDefaultVolume == 100 \* a fresh rodio Sink plays at 1.0
One == 100               \* 1.0 as a bar height: a bar is a multiple of 1/One
SmoothDen == 10          \* the smoothing factor is smoothing / SmoothDen

(***************************************************************************)
(* Option<T>, min, max.                                                    *)
(***************************************************************************)
None == <<>>
Some(x) == <<x>>
Min(a, b) == IF a <= b THEN a ELSE b
Max(a, b) == IF a >= b THEN a ELSE b
Clamp(x, lo, hi) == Max(lo, Min(x, hi))

(***************************************************************************)
(* Buffers of samples: Vec<f32> as runs of sample identities.              *)
(***************************************************************************)
RunLen(r) == r.hi - r.lo + 1

RECURSIVE BufLen(_)
BufLen(buf) == IF buf = <<>> THEN 0 ELSE RunLen(Head(buf)) + BufLen(Tail(buf))

\* buf.drain(..k): the buffer without its first k samples
RECURSIVE DropFront(_, _)
DropFront(buf, k) ==
    IF k = 0 \/ buf = <<>> THEN buf
    ELSE IF RunLen(Head(buf)) <= k
         THEN DropFront(Tail(buf), k - RunLen(Head(buf)))
         ELSE <<[Head(buf) EXCEPT !.lo = @ + k]>> \o Tail(buf)

\* the first k samples of the buffer
RECURSIVE TakeFront(_, _)
TakeFront(buf, k) ==
    IF k = 0 \/ buf = <<>> THEN <<>>
    ELSE IF RunLen(Head(buf)) <= k
         THEN <<Head(buf)>> \o TakeFront(Tail(buf), k - RunLen(Head(buf)))
         ELSE <<[Head(buf) EXCEPT !.hi = Head(buf).lo + k - 1]>>

\* an extend that puts the new samples in front of the old ones
ExtendAtFront(buf, more) == more \o buf

\* buf.extend_from_slice(more); adjacent runs of one session are merged
Extend(buf, more) ==
    IF more = <<>> THEN buf
    ELSE IF buf = <<>> THEN more
    ELSE LET l == buf[Len(buf)]
             f == Head(more)
         IN IF l.s = f.s /\ l.hi + 1 = f.lo
            THEN SubSeq(buf, 1, Len(buf) - 1) \o <<[l EXCEPT !.hi = f.hi]>> \o Tail(more)
            ELSE buf \o more

(***************************************************************************)
(* The tracks.  A track is a file: ok says whether it can be read and      *)
(* decoded, dur is the duration its format reports (total_duration(), an   *)
(* Option), len the audio it really holds in ms, channels and rate what    *)
(* the decoder reports, mags the magnitudes an FFT over its samples gives  *)
(* in hundredths.                                                          *)
(***************************************************************************)
Frames(t) == (t.len * t.rate) \div 1000

Library == <<
    [ok |-> TRUE,  dur |-> Some(3000), len |-> 3000, channels |-> 2, rate |-> 3072, mags |-> {10000}],
    [ok |-> FALSE, dur |-> None,       len |-> 0,    channels |-> 1, rate |-> 0,   mags |-> {}],
    [ok |-> TRUE,  dur |-> None,       len |-> 4500, channels |-> 1, rate |-> 200, mags |-> {10000}] >>

(***************************************************************************)
(* AudioPlayer (audio.rs).                                                 *)
(***************************************************************************)
\* Sink::empty()
IsEmpty == sink.left = 0

\* get_elapsed_millis without its paused branch
ElapsedMsWallClock ==
    IF start_time # None THEN Max(0, now - start_time[1]) ELSE elapsed_millis

\* get_elapsed_millis
ElapsedMs ==
    IF sink.paused THEN pause_elapsed
    ELSE IF start_time # None THEN Max(0, now - start_time[1])
    ELSE elapsed_millis

\* the session of the latest successful play(), 0 before the first
Session == Len(bridges)

\* play() installing a new sink that inherits the pause flag of the old one
AudioPlayKeepsPause(t) ==
    /\ current_duration' = db[t].dur
    /\ elapsed_millis' = 0
    /\ start_time' = Some(now)
    /\ sink' = [track |-> t, left |-> db[t].len, paused |-> sink.paused,
                volume |-> SinkDefaultVolume]
    /\ bridges' = Append(bridges, [track |-> t, pos |-> 0, done |-> FALSE])
    /\ stopped' = FALSE
    /\ UNCHANGED <<sample_buffer, pause_elapsed>>

\* play() past its last fallible call: lines 83-161
AudioPlayOk(t) ==
    /\ current_duration' = db[t].dur
    /\ elapsed_millis' = 0
    /\ start_time' = Some(now)
    /\ sink' = [track |-> t, left |-> db[t].len, paused |-> FALSE,
                volume |-> SinkDefaultVolume]
    /\ bridges' = Append(bridges, [track |-> t, pos |-> 0, done |-> FALSE])
    /\ stopped' = FALSE
    /\ UNCHANGED <<sample_buffer, pause_elapsed>>

\* play() decoding only after it reset the clock and stopped the old sink
AudioPlayDecodeLate(t) ==
    IF db[t].ok THEN AudioPlayOk(t)
    ELSE /\ current_duration' = None
         /\ elapsed_millis' = 0
         /\ start_time' = Some(now)
         /\ sink' = [sink EXCEPT !.left = 0]
         /\ UNCHANGED <<sample_buffer, pause_elapsed, bridges, stopped>>

\* play(): fs::read and the two Decoder::new fail before anything is written.
\* Sink::try_new cannot fail here: it fails only when the OutputStream is
\* gone, and the player owns it (_stream) for as long as it lives.
AudioPlay(t) ==
    IF db[t].ok THEN AudioPlayOk(t) ELSE UNCHANGED audioVars

AudioPause ==
    /\ pause_elapsed' = ElapsedMs
    /\ sink' = [sink EXCEPT !.paused = TRUE]
    /\ UNCHANGED <<current_duration, sample_buffer, elapsed_millis, start_time, bridges, stopped>>

\* resume() anchoring at now, the frozen position forgotten
AudioResumeAtNow ==
    /\ start_time' = Some(now)
    /\ sink' = [sink EXCEPT !.paused = FALSE]
    /\ UNCHANGED <<current_duration, sample_buffer, elapsed_millis, pause_elapsed, bridges, stopped>>

AudioResume ==
    /\ start_time' = Some(now - pause_elapsed)
    /\ sink' = [sink EXCEPT !.paused = FALSE]
    /\ UNCHANGED <<current_duration, sample_buffer, elapsed_millis, pause_elapsed, bridges, stopped>>

\* Sink::stop empties the queue and leaves the pause flag as it is
AudioStop ==
    /\ sink' = [sink EXCEPT !.left = 0]
    /\ sample_buffer' = <<>>
    /\ elapsed_millis' = 0
    /\ start_time' = None
    /\ stopped' = TRUE
    /\ UNCHANGED <<current_duration, pause_elapsed, bridges>>

AudioSetElapsedMillis(millis) ==
    /\ start_time' = Some(now - millis)
    /\ UNCHANGED <<sink, current_duration, sample_buffer, elapsed_millis,
                   pause_elapsed, bridges, stopped>>

AudioSetVolume(v) ==
    /\ sink' = [sink EXCEPT !.volume = v]
    /\ UNCHANGED <<current_duration, sample_buffer, elapsed_millis, start_time,
                   pause_elapsed, bridges, stopped>>

(***************************************************************************)
(* The capture thread spawned by play() (audio.rs 103-159).  One step is   *)
(* one iteration of its loop: pull a chunk from the analysis decoder,      *)
(* leave when it is empty, else append it (downmixed to one sample per     *)
(* frame) and trim, all under the buffer's lock.                           *)
(***************************************************************************)
Chunk(b) == Min(ChunkFrames, Frames(db[bridges[b].track]) - bridges[b].pos)

\* A capture thread that appends without trimming.
AppendNoTrim(buf, run) == Extend(buf, <<run>>)

\* buf.extend_from_slice(..); if buf.len() > 8192 { buf.drain(..4096); }
AppendTrim(buf, run) ==
    LET ext == Extend(buf, <<run>>)
    IN IF BufLen(ext) > BufferCap THEN DropFront(ext, TrimCount) ELSE ext

\* a capture thread that keeps looping after it pulled no samples
BridgeStepNoExit(b) ==
    /\ ~bridges[b].done
    /\ LET n == Chunk(b)
       IN IF n = 0
          THEN /\ UNCHANGED <<bridges, sample_buffer>>
               /\ last' = [op |-> "bridge_exit", s |-> b]
          ELSE /\ bridges' = [bridges EXCEPT ![b].pos = @ + n]
               /\ sample_buffer' = AppendTrim(sample_buffer,
                                      [s |-> b, lo |-> bridges[b].pos + 1,
                                       hi |-> bridges[b].pos + n])
               /\ last' = [op |-> "bridge", s |-> b, n |-> n,
                           preLen |-> BufLen(sample_buffer),
                           live |-> (b = Session /\ ~stopped)]
    /\ UNCHANGED <<now, db, budget, sink, current_duration, elapsed_millis, start_time,
                   pause_elapsed, stopped, playerVars, vizVars, pc, vlast>>

BridgeStep(b) ==
    /\ ~bridges[b].done
    /\ LET n == Chunk(b)
       IN IF n = 0
          THEN /\ bridges' = [bridges EXCEPT ![b].done = TRUE]
               /\ UNCHANGED sample_buffer
               /\ last' = [op |-> "bridge_exit", s |-> b]
          ELSE /\ bridges' = [bridges EXCEPT ![b].pos = @ + n]
               /\ sample_buffer' = AppendTrim(sample_buffer,
                                      [s |-> b, lo |-> bridges[b].pos + 1,
                                       hi |-> bridges[b].pos + n])
               /\ last' = [op |-> "bridge", s |-> b, n |-> n,
                           preLen |-> BufLen(sample_buffer),
                           live |-> (b = Session /\ ~stopped)]
    /\ UNCHANGED <<now, db, budget, sink, current_duration, elapsed_millis, start_time,
                   pause_elapsed, stopped, playerVars, vizVars, pc, vlast>>

(***************************************************************************)
(* The passage of time: the sink plays its queue unless it is paused.      *)
(***************************************************************************)
Advance(d) ==
    /\ now + d <= Horizon
    /\ now' = now + d
    /\ sink' = IF sink.paused THEN sink
               ELSE [sink EXCEPT !.left = Max(0, @ - d)]
    /\ last' = [op |-> "advance"]
    /\ UNCHANGED <<db, budget, current_duration, sample_buffer, elapsed_millis, start_time,
                   pause_elapsed, bridges, stopped, playerVars, vizVars, pc, vlast>>

\* time passes while the main loop waits for a key
PassTime == \E d \in TimeSteps : pc = "event" /\ Advance(d)

(***************************************************************************)
(* PlayerState (player.rs).  Indices into the queue are 0-based as in the  *)
(* source; queue[i + 1] is the track at index i.                           *)
(***************************************************************************)
Contains(seq, x) == \E k \in 1..Len(seq) : seq[k] = x

\* the model's bound on play(): a further session may start
CanPlay == Len(bridges) < budget

\* a play_track that records the index before it knows that play() succeeded
PlayTrackIndexFirst(q, index, played) ==
    IF index < Len(q)
    THEN LET t == q[index + 1]
         IN /\ AudioPlay(t)
            /\ current_track_index' = Some(index)
            /\ IF db[t].ok
               THEN /\ is_playing' = TRUE
                    /\ played_indices' = IF shuffle /\ ~Contains(played, index)
                                         THEN Append(played, index) ELSE played
                    /\ last' = [op |-> "play", track |-> t, wasPaused |-> sink.paused]
               ELSE /\ UNCHANGED is_playing
                    /\ played_indices' = played
                    /\ last' = [op |-> "play_failed", track |-> t,
                                pre |-> <<audioVars, current_track_index, is_playing>>]
    ELSE /\ UNCHANGED <<audioVars, current_track_index, is_playing, last>>
         /\ played_indices' = played

\* play_track(index) on queue q, with played_indices as the caller left it
PlayTrack(q, index, played) ==
    IF index < Len(q)
    THEN LET t == q[index + 1]
         IN /\ AudioPlay(t)
            /\ IF db[t].ok
               THEN /\ current_track_index' = Some(index)
                    /\ is_playing' = TRUE
                    /\ played_indices' = IF shuffle /\ ~Contains(played, index)
                                         THEN Append(played, index) ELSE played
                    /\ last' = [op |-> "play", track |-> t, wasPaused |-> sink.paused]
               ELSE /\ UNCHANGED <<current_track_index, is_playing>>
                    /\ played_indices' = played
                    /\ last' = [op |-> "play_failed", track |-> t,
                                pre |-> <<audioVars, current_track_index, is_playing>>]
    ELSE /\ UNCHANGED <<audioVars, current_track_index, is_playing, last>>
         /\ played_indices' = played

\* get_next_shuffle_index: played_indices after the reset, and the unplayed indices
ShufflePlayed ==
    IF Len(played_indices) >= Len(queue)
    THEN (IF current_track_index # None THEN <<current_track_index[1]>> ELSE <<>>)
    ELSE played_indices

\* every index counts as unplayed: the filter on played_indices left out
UnplayedAny == 0..(Len(queue) - 1)

Unplayed == {i \in 0..(Len(queue) - 1) : ~Contains(ShufflePlayed, i)}

\* a next_track that does not wrap at the end of the queue
NextTrackNoWrap ==
    IF queue = <<>>
    THEN UNCHANGED <<audioVars, current_track_index, is_playing, played_indices, last>>
    ELSE IF shuffle
    THEN (IF Unplayed = {}
          THEN PlayTrack(queue, 0, ShufflePlayed)
          ELSE \E i \in Unplayed : PlayTrack(queue, i, ShufflePlayed))
    ELSE PlayTrack(queue,
                   IF current_track_index # None THEN current_track_index[1] + 1 ELSE 0,
                   played_indices)

\* next_track
NextTrack ==
    IF queue = <<>>
    THEN UNCHANGED <<audioVars, current_track_index, is_playing, played_indices, last>>
    ELSE IF shuffle
    THEN (IF Unplayed = {}
          THEN PlayTrack(queue, 0, ShufflePlayed)
          ELSE \E i \in Unplayed : PlayTrack(queue, i, ShufflePlayed))
    ELSE PlayTrack(queue,
                   IF current_track_index # None
                   THEN (current_track_index[1] + 1) % Len(queue) ELSE 0,
                   played_indices)

\* previous_track
PreviousTrack ==
    IF queue = <<>>
    THEN UNCHANGED <<audioVars, current_track_index, is_playing, played_indices, last>>
    ELSE PlayTrack(queue,
                   IF current_track_index # None
                   THEN (IF current_track_index[1] > 0
                         THEN current_track_index[1] - 1 ELSE Len(queue) - 1)
                   ELSE 0,
                   played_indices)

\* a should_advance that does not look at is_playing
ShouldAdvanceIgnoresPlaying == IsEmpty /\ queue # <<>>

\* should_advance
ShouldAdvance == is_playing /\ IsEmpty /\ queue # <<>>

(***************************************************************************)
(* The main loop (main.rs 123-285): update_visualizer, draw, wait up to    *)
(* 16 ms for one key and handle it, then the auto-advance check.  pc is    *)
(* "viz", "clear", "event" or "advance".  A key handler is one step.       *)
(***************************************************************************)
KeyDone == pc = "event" /\ pc' = "advance"

KeyTogglePlayback ==
    /\ KeyDone
    /\ (is_playing \/ current_track_index # None \/ queue = <<>> \/ CanPlay)
    /\ IF is_playing
       THEN /\ AudioPause
            /\ is_playing' = FALSE
            /\ last' = [op |-> "pause", before |-> ElapsedMs]
            /\ UNCHANGED <<current_track_index, played_indices>>
       ELSE IF current_track_index = None /\ queue # <<>>
       THEN PlayTrack(queue, 0, played_indices)
       ELSE /\ AudioResume
            /\ is_playing' = TRUE
            /\ last' = [op |-> "resume", wasPaused |-> sink.paused,
                        frozen |-> ElapsedMs,
                        raw |-> IF start_time # None THEN now - start_time[1] ELSE 0,
                        afterPause |-> (last.op = "pause"),
                        before |-> IF last.op = "pause" THEN last.before ELSE 0,
                        pausedSeek |-> IF last.op = "seek" /\ last.wasPaused
                                       THEN Some(Max(0, last.target)) ELSE None]
            /\ UNCHANGED <<current_track_index, played_indices>>
    /\ UNCHANGED <<now, db, budget, queue, list_state, volume, shuffle, loopC, vizVars, vlast>>

KeyNext ==
    /\ KeyDone
    /\ CanPlay
    /\ NextTrack
    /\ UNCHANGED <<now, db, budget, queue, list_state, volume, shuffle, loopC, vizVars, vlast>>

KeyPrevious ==
    /\ KeyDone
    /\ CanPlay
    /\ PreviousTrack
    /\ UNCHANGED <<now, db, budget, queue, list_state, volume, shuffle, loopC, vizVars, vlast>>

\* play_selected
KeySelect ==
    /\ KeyDone
    /\ CanPlay
    /\ IF list_state < Len(db)
       THEN /\ queue' = [i \in 1..Len(db) |-> i]
            /\ PlayTrack(queue', list_state, <<>>)
       ELSE UNCHANGED <<queue, audioVars, current_track_index, is_playing,
                        played_indices, last>>
    /\ UNCHANGED <<now, db, budget, list_state, volume, shuffle, loopC, vizVars, vlast>>

KeyUp ==
    /\ KeyDone
    /\ list_state' = IF list_state > 0 THEN list_state - 1 ELSE list_state
    /\ UNCHANGED <<now, db, budget, audioVars, queue, current_track_index, is_playing, volume,
                   shuffle, played_indices, loopC, vizVars, last, vlast>>

KeyDown ==
    /\ KeyDone
    /\ list_state' = IF list_state < Max(Len(db) - 1, 0) THEN list_state + 1 ELSE list_state
    /\ UNCHANGED <<now, db, budget, audioVars, queue, current_track_index, is_playing, volume,
                   shuffle, played_indices, loopC, vizVars, last, vlast>>

\* clear_queue
KeyClear ==
    /\ KeyDone
    /\ queue' = <<>>
    /\ current_track_index' = None
    /\ AudioStop
    /\ is_playing' = FALSE
    /\ played_indices' = <<>>
    /\ last' = [op |-> "stop", wasPaused |-> sink.paused, wasEmpty |-> IsEmpty]
    /\ UNCHANGED <<now, db, budget, list_state, volume, shuffle, loopC, vizVars, vlast>>

\* seek_forward
KeySeekForward ==
    /\ KeyDone
    /\ ElapsedMs + SeekStep <= Horizon + MaxSeekAhead * SeekStep
    /\ AudioSetElapsedMillis(ElapsedMs + SeekStep)
    /\ last' = [op |-> "seek", target |-> ElapsedMs + SeekStep, wasPaused |-> sink.paused,
                dir |-> "forward", from |-> ElapsedMs]
    /\ UNCHANGED <<now, db, budget, playerVars, vizVars, vlast>>

\* seek_backward: saturating_sub
KeySeekBackward ==
    /\ KeyDone
    /\ AudioSetElapsedMillis(Max(0, ElapsedMs - SeekStep))
    /\ last' = [op |-> "seek", target |-> ElapsedMs - SeekStep, wasPaused |-> sink.paused,
                dir |-> "backward", from |-> ElapsedMs]
    /\ UNCHANGED <<now, db, budget, playerVars, vizVars, vlast>>

\* the wait for a key times out
Timeout ==
    /\ KeyDone
    /\ UNCHANGED <<now, db, budget, audioVars, playerVars, vizVars, last, vlast>>

\* main.rs 273-284
AutoAdvance ==
    /\ pc = "advance"
    /\ pc' = "viz"
    /\ IF ShouldAdvance
       THEN /\ CanPlay
            /\ IF loopC
               THEN (IF current_track_index # None
                     THEN PlayTrack(queue, current_track_index[1], played_indices)
                     ELSE UNCHANGED <<audioVars, current_track_index, is_playing,
                                      played_indices, last>>)
               ELSE NextTrack
       ELSE UNCHANGED <<audioVars, current_track_index, is_playing, played_indices, last>>
    /\ UNCHANGED <<now, db, budget, queue, list_state, volume, shuffle, loopC, vizVars, vlast>>

KeyVolumeUp ==
    /\ KeyDone
    /\ volume' = Min(volume + VolumeStep, FullVolume)
    /\ AudioSetVolume(volume')
    /\ last' = [op |-> "set_volume", v |-> volume + VolumeStep]
    /\ UNCHANGED <<now, db, budget, queue, current_track_index, list_state, is_playing,
                   shuffle, played_indices, loopC, vizVars, vlast>>

KeyVolumeDown ==
    /\ KeyDone
    /\ volume' = Max(volume - VolumeStep, 0)
    /\ AudioSetVolume(volume')
    /\ last' = [op |-> "set_volume", v |-> volume - VolumeStep]
    /\ UNCHANGED <<now, db, budget, queue, current_track_index, list_state, is_playing,
                   shuffle, played_indices, loopC, vizVars, vlast>>

\* toggle_shuffle
KeyShuffle ==
    /\ KeyDone
    /\ shuffle' = ~shuffle
    /\ played_indices' = IF current_track_index # None
                         THEN <<current_track_index[1]>> ELSE <<>>
    /\ UNCHANGED <<now, db, budget, audioVars, queue, current_track_index, list_state,
                   is_playing, volume, loopC, vizVars, last, vlast>>

\* main.rs 237
KeyLoop ==
    /\ KeyDone
    /\ loopC' = ~loopC
    /\ UNCHANGED <<now, db, budget, audioVars, queue, current_track_index, list_state,
                   is_playing, volume, shuffle, played_indices, vizVars, last, vlast>>

(***************************************************************************)
(* Visualizer (visualizer.rs).                                             *)
(***************************************************************************)
\* f32 NaN, as an average magnitude
NaN == -1

\* x * num / den rounded to nearest, ties to even
MulRound(x, num, den) ==
    LET q == (x * num) \div den
        r == (x * num) % den
    IN IF 2 * r < den THEN q
       ELSE IF 2 * r > den THEN q + 1
       ELSE IF q % 2 = 0 THEN q ELSE q + 1

\* usize::next_power_of_two
RECURSIVE PowerAtLeast(_, _)
PowerAtLeast(n, p) == IF p >= n THEN p ELSE PowerAtLeast(n, 2 * p)
NextPowerOfTwo(n) == PowerAtLeast(n, 1)

\* an fft_size without the cap at 2048
FftSizeUncapped(len) == NextPowerOfTwo(len)

FftSize(len) == Min(MaxFft, NextPowerOfTwo(len))

\* (avg_magnitude / 100.0).min(1.0), in units of 1/10000; f32::min ignores a NaN
Normalized(avg) == IF avg = NaN THEN 10000 ELSE Min(avg, 10000)

\* f32::log10 on the normalized values the tracks of the model produce, in units of 1/One
Log10(n) ==
    CASE n = 50 -> -230
      [] n = 100 -> -200
      [] n = 200 -> -170
      [] n = 1000 -> -100
      [] n = 5000 -> -30
      [] n = 10000 -> 0

\* the logarithmic scale without the clamp to [0, 1]
LogScaledUnclamped(n) ==
    IF n > 0 THEN (Log10(n) + 2 * One) \div 2 ELSE 0

\* ((normalized.log10() + 2.0) / 2.0).max(0.0).min(1.0), 0.0 for normalized = 0
LogScaled(n) ==
    Clamp(IF n > 0 THEN (Log10(n) + 2 * One) \div 2 ELSE 0, 0, One)

\* the interpolation with its two weights exchanged
SmoothSwapped(bar, scaled) ==
    MulRound(bar, SmoothDen - smoothing, SmoothDen) + MulRound(scaled, smoothing, SmoothDen)

\* bar * smoothing + log_scaled * (1.0 - smoothing)
Smooth(bar, scaled) ==
    MulRound(bar, smoothing, SmoothDen) + MulRound(scaled, SmoothDen - smoothing, SmoothDen)

\* an empty buffer that leaves the bar as it is
DecayHold(bar) == bar

\* *bar *= self.smoothing
Decay(bar) == MulRound(bar, smoothing, SmoothDen)

\* the magnitudes an FFT over a window of samples can give
WindowMags(w) == UNION {db[bridges[w[k].s].track].mags : k \in 1..Len(w)}

\* the samples update() drains from a non-empty buffer
Window(buf) == TakeFront(buf, FftSize(BufLen(buf)))

\* update(), given the average magnitude m[i] the FFT gives for bar i's bins
VisualizerUpdate(m) ==
    /\ vlast' = [op |-> "update", bars |-> bars, len |-> BufLen(audio_buffer),
                 fft |-> IF audio_buffer = <<>> THEN 0 ELSE FftSize(BufLen(audio_buffer)),
                 taken |-> IF audio_buffer = <<>> THEN 0
                           ELSE BufLen(Window(audio_buffer)),
                 newest |-> IF audio_buffer = <<>> THEN vlast.newest
                            ELSE LET w == Window(audio_buffer)
                                 IN Some([s |-> w[Len(w)].s, hi |-> w[Len(w)].hi])]
    /\ IF audio_buffer = <<>>
       THEN /\ bars' = [i \in 1..Len(bars) |-> Decay(bars[i])]
            /\ UNCHANGED audio_buffer
       ELSE LET fft_size == FftSize(BufLen(audio_buffer))
                spectrum_size == fft_size \div 2
                freqs_per_bar == spectrum_size \div bar_count
                start_idx(i) == (i - 1) * freqs_per_bar
                end_idx(i) == Min(i * freqs_per_bar, spectrum_size)
                avg(i) == IF end_idx(i) = start_idx(i) THEN NaN ELSE m[i]
            IN /\ audio_buffer' = DropFront(audio_buffer, fft_size)
               /\ bars' = [i \in 1..Len(bars) |->
                             IF start_idx(i) >= spectrum_size THEN bars[i]
                             ELSE Smooth(bars[i], LogScaled(Normalized(avg(i))))]
    /\ UNCHANGED <<bar_count, smoothing>>

(***************************************************************************)
(* The FFT of a window whose samples the model knows: a track may carry    *)
(* its decoded samples (wave), in hundredths of full scale.  The transform *)
(* is computed exactly for the sizes 1, 2 and 4, whose twiddle factors are *)
(* powers of -i.                                                           *)
(***************************************************************************)
Abs(x) == IF x < 0 THEN -x ELSE x

\* every sample of the window w comes from a track that carries its samples
HasWave(w) == \A k \in 1..Len(w) : "wave" \in DOMAIN db[bridges[w[k].s].track]

RunSamples(r) == [k \in 1..RunLen(r) |-> db[bridges[r.s].track].wave[r.lo + k - 1]]

RECURSIVE Samples(_)
Samples(w) == IF w = <<>> THEN <<>> ELSE RunSamples(Head(w)) \o Samples(Tail(w))

\* samples.resize(fft_size, 0.0)
Padded(x, size) == [n \in 1..size |-> IF n <= Len(x) THEN x[n] ELSE 0]

\* real and imaginary part of (-i)^q
ReTw(q) == CASE q = 0 -> 1 [] q = 2 -> -1 [] OTHER -> 0
ImTw(q) == CASE q = 1 -> -1 [] q = 3 -> 1 [] OTHER -> 0

\* bin j of the forward transform of x (size Len(x)), summed over its first n samples
RECURSIVE BinRe(_, _, _)
BinRe(x, j, n) ==
    IF n = 0 THEN 0
    ELSE BinRe(x, j, n - 1) + x[n] * ReTw((j * (n - 1) * (4 \div Len(x))) % 4)

RECURSIVE BinIm(_, _, _)
BinIm(x, j, n) ==
    IF n = 0 THEN 0
    ELSE BinIm(x, j, n - 1) + x[n] * ImTw((j * (n - 1) * (4 \div Len(x))) % 4)

\* Complex::norm
Norm(re, im) ==
    LET a == Abs(re)
        b == Abs(im)
    IN IF b = 0 THEN a
       ELSE IF a = 0 THEN b
       ELSE CHOOSE r \in Max(a, b)..(a + b) :
                r * r <= a * a + b * b /\ (r + 1) * (r + 1) > a * a + b * b

\* sum of input[j].norm() for j in from..(to - 1)
RECURSIVE MagSum(_, _, _)
MagSum(x, from, to) ==
    IF to <= from THEN 0
    ELSE MagSum(x, from, to - 1)
             + Norm(BinRe(x, to - 1, Len(x)), BinIm(x, to - 1, Len(x)))

\* bar i averaging the bins one place too high
SpectrumAveragesShifted(x) ==
    LET spectrum_size == Len(x) \div 2
        freqs_per_bar == spectrum_size \div bar_count
    IN [i \in 1..Len(bars) |->
          LET start_idx == i * freqs_per_bar
              end_idx == Min((i + 1) * freqs_per_bar, spectrum_size)
          IN IF end_idx > start_idx
             THEN MagSum(x, start_idx, end_idx) \div (end_idx - start_idx)
             ELSE 0]

\* avg_magnitude of every bar for the padded samples x (lines 63-81)
SpectrumAverages(x) ==
    LET spectrum_size == Len(x) \div 2
        freqs_per_bar == spectrum_size \div bar_count
    IN [i \in 1..Len(bars) |->
          LET start_idx == (i - 1) * freqs_per_bar
              end_idx == Min(i * freqs_per_bar, spectrum_size)
          IN IF end_idx > start_idx
             THEN MagSum(x, start_idx, end_idx) \div (end_idx - start_idx)
             ELSE 0]

\* the choices of m for the window update() would take
MagChoices ==
    IF audio_buffer = <<>> THEN {[i \in 1..Len(bars) |-> 0]}
    ELSE IF HasWave(Window(audio_buffer))
    THEN {SpectrumAverages(Padded(Samples(Window(audio_buffer)),
                                  FftSize(BufLen(audio_buffer))))}
    ELSE [1..Len(bars) -> WindowMags(Window(audio_buffer))]

\* update_visualizer up to the copy (player.rs 273-285)
UpdateVisualizerCopy ==
    /\ pc = "viz"
    /\ IF is_playing
       THEN /\ audio_buffer' = Extend(audio_buffer, sample_buffer)
            /\ pc' = "clear"
            /\ last' = [op |-> "copy"]
       ELSE /\ UNCHANGED <<audio_buffer, last>>
            /\ pc' = "event"
    /\ UNCHANGED <<now, db, budget, audioVars, playerVars, bars, bar_count, smoothing, vlast>>

\* update_visualizer from the clear on (player.rs 286-289); between the copy
\* and the clear only the capture threads run, so the buffer holds samples
\* that were not copied exactly when a capture thread appended last
UpdateVisualizerClear ==
    /\ pc = "clear"
    /\ pc' = "event"
    /\ sample_buffer' = <<>>
    /\ \E m \in MagChoices : VisualizerUpdate(m)
    /\ last' = [op |-> "drain", uncopied |-> (last.op = "bridge")]
    /\ UNCHANGED <<now, db, budget, sink, current_duration, elapsed_millis, start_time,
                   pause_elapsed, bridges, stopped, playerVars>>

(***************************************************************************)
(* The program: PlayerState::new, then the main loop, the capture threads  *)
(* and the clock.                                                          *)
(***************************************************************************)
Zeros(n) == [i \in 1..n |-> 0]

\* AudioPlayer::new and PlayerState::new over the tracks lib, the analyzer
\* configured with n bars and smoothing sm; plays bounds the run
Started(lib, n, sm, plays) ==
    /\ now = 0
    /\ db = lib
    /\ budget = plays
    /\ sink = [track |-> 0, left |-> 0, paused |-> FALSE, volume |-> InitialVolume]
    /\ current_duration = None
    /\ sample_buffer = <<>>
    /\ elapsed_millis = 0
    /\ start_time = None
    /\ pause_elapsed = 0
    /\ bridges = <<>>
    /\ stopped = FALSE
    /\ queue = <<>>
    /\ current_track_index = None
    /\ list_state = 0
    /\ is_playing = FALSE
    /\ volume = InitialVolume
    /\ shuffle = FALSE
    /\ played_indices = <<>>
    /\ loopC = FALSE
    /\ bars = Zeros(n)
    /\ bar_count = n
    /\ smoothing = sm
    /\ audio_buffer = <<>>
    /\ pc = "viz"
    /\ last = [op |-> "new"]
    /\ vlast = [op |-> "new", newest |-> None]

\* Started, one turn of the main loop later: update_visualizer found nothing
\* playing and the first key was Enter, so play_selected has started the
\* first track of lib and its capture thread
Playing(lib, n, sm, plays) ==
    /\ now = 0
    /\ db = lib
    /\ budget = plays
    /\ sink = [track |-> 1, left |-> lib[1].len, paused |-> FALSE,
               volume |-> SinkDefaultVolume]
    /\ current_duration = lib[1].dur
    /\ sample_buffer = <<>>
    /\ elapsed_millis = 0
    /\ start_time = Some(0)
    /\ pause_elapsed = 0
    /\ bridges = <<[track |-> 1, pos |-> 0, done |-> FALSE]>>
    /\ stopped = FALSE
    /\ queue = [i \in 1..Len(lib) |-> i]
    /\ current_track_index = Some(0)
    /\ list_state = 0
    /\ is_playing = TRUE
    /\ volume = InitialVolume
    /\ shuffle = FALSE
    /\ played_indices = <<>>
    /\ loopC = FALSE
    /\ bars = Zeros(n)
    /\ bar_count = n
    /\ smoothing = sm
    /\ audio_buffer = <<>>
    /\ pc = "advance"
    /\ last = [op |-> "play", track |-> 1, wasPaused |-> FALSE]
    /\ vlast = [op |-> "new", newest |-> None]

(***************************************************************************)
(* Spec: the player under the keys that start, pause, seek and clear, and  *)
(* the clock.  The capture threads are spawned but take their steps in     *)
(* CaptureSpec: a capture step writes bridges, sample_buffer and last      *)
(* only.                                                                   *)
(***************************************************************************)
Init == Started(Library, 1, 0, MaxPlays)

Next ==
    \/ UpdateVisualizerCopy
    \/ UpdateVisualizerClear
    \/ KeyTogglePlayback
    \/ KeyNext
    \/ KeyPrevious
    \/ KeySelect
    \/ KeyClear
    \/ KeySeekForward
    \/ KeySeekBackward
    \/ Timeout
    \/ AutoAdvance
    \/ PassTime

Spec == Init /\ [][Next]_vars

(***************************************************************************)
(* CaptureSpec: the capture thread of the first track against the main     *)
(* loop's update_visualizer, under the keys that pause, resume and clear.  *)
(* The wall clock stands still: no capture step reads it.                  *)
(***************************************************************************)
Capture == \E b \in 1..Len(bridges) : BridgeStep(b)

CaptureNext ==
    \/ UpdateVisualizerCopy
    \/ UpdateVisualizerClear
    \/ KeyTogglePlayback
    \/ KeyClear
    \/ Timeout
    \/ AutoAdvance
    \/ Capture

CaptureInit == Playing(Library, 1, 0, MaxPlays)

CaptureSpec == CaptureInit /\ [][CaptureNext]_vars

(***************************************************************************)
(* VizSpec: the analyzer under every configuration of bar_count and        *)
(* smoothing, fed by one short track whose spectrum ranges from silence to *)
(* beyond full scale.  The track's last chunk is two samples long, so the  *)
(* analyzer also sees windows with fewer bins than bars.  Once the capture *)
(* thread has drained the track the main loop keeps updating on an empty   *)
(* buffer.                                                                 *)
(***************************************************************************)
VizLibrary ==
    << [ok |-> TRUE, dur |-> Some(1026), len |-> 1026, channels |-> 1, rate |-> 1000,
        mags |-> {0, 50, 5000, 100000}] >>

VizInit ==
    \E n \in 1..MaxBars, sm \in 0..SmoothDen : Playing(VizLibrary, n, sm, MaxPlays)

VizNext ==
    \/ UpdateVisualizerCopy
    \/ UpdateVisualizerClear
    \/ Timeout
    \/ AutoAdvance
    \/ Capture

VizSpec == VizInit /\ [][VizNext]_vars

(***************************************************************************)
(* ApiSpec: the public methods of AudioPlayer, called in any order with    *)
(* any argument, and the clock.                                            *)
(***************************************************************************)
VolumeInputs == {-50, 0, 50, FullVolume, 150}
MillisInputs == {0, SeekStep}

ApiFrame == UNCHANGED <<db, budget, playerVars, vizVars, pc, vlast>>

ApiPlay ==
    \E t \in 1..Len(db) :
        /\ CanPlay
        /\ AudioPlay(t)
        /\ last' = [op |-> IF db[t].ok THEN "play" ELSE "play_failed", track |-> t,
                    wasPaused |-> sink.paused, pre |-> <<audioVars, None, FALSE>>]
        /\ UNCHANGED now
        /\ ApiFrame

ApiPause ==
    /\ AudioPause
    /\ last' = [op |-> "pause", before |-> ElapsedMs]
    /\ UNCHANGED now
    /\ ApiFrame

ApiResume ==
    /\ AudioResume
    /\ last' = [op |-> "api_resume"]
    /\ UNCHANGED now
    /\ ApiFrame

ApiStop ==
    /\ AudioStop
    /\ last' = [op |-> "api_stop"]
    /\ UNCHANGED now
    /\ ApiFrame

ApiSetElapsedMillis ==
    \E millis \in MillisInputs :
        /\ AudioSetElapsedMillis(millis)
        /\ last' = [op |-> "api_set_elapsed", millis |-> millis]
        /\ UNCHANGED now
        /\ ApiFrame

ApiSetVolume ==
    \E v \in VolumeInputs :
        /\ AudioSetVolume(v)
        /\ last' = [op |-> "set_volume", v |-> v]
        /\ UNCHANGED now
        /\ ApiFrame

ApiWait == \E d \in TimeSteps : Advance(d)

ApiNext ==
    \/ ApiPlay
    \/ ApiPause
    \/ ApiResume
    \/ ApiStop
    \/ ApiSetElapsedMillis
    \/ ApiSetVolume
    \/ ApiWait

ApiSpec == Init /\ [][ApiNext]_vars

(***************************************************************************)
(* DownmixSpec: the capture thread's conversion of one pulled chunk to     *)
(* mono (audio.rs 124-147), on every chunk of up to MaxTmp interleaved     *)
(* samples from a decoder with 1..MaxChannels channels.  Sample values are *)
(* integers; the mean of a frame is its sum divided by the channel count.  *)
(***************************************************************************)
SampleValues == {-6, 0, 6}

RECURSIVE SeqsUpTo(_, _)
SeqsUpTo(S, n) ==
    IF n = 0 THEN {<<>>}
    ELSE LET shorter == SeqsUpTo(S, n - 1)
         IN shorter \cup {Append(q, x) : q \in shorter, x \in S}

\* sum over ch in 0..channels-1 of tmp[frame_idx * channels + ch] (0-based)
RECURSIVE FrameSum(_, _, _, _)
FrameSum(tmp, frame_idx, channels, ch) ==
    IF ch = 0 THEN 0
    ELSE FrameSum(tmp, frame_idx, channels, ch - 1)
             + tmp[frame_idx * channels + (ch - 1) + 1]

\* a downmix that keeps the first channel of each frame
DownmixFirstChannel(tmp, channels) ==
    IF channels > 1
    THEN [k \in 1..(Len(tmp) \div channels) |-> tmp[(k - 1) * channels + 1]]
    ELSE tmp

\* the samples the thread appends for the chunk tmp
Downmix(tmp, channels) ==
    IF channels > 1
    THEN [k \in 1..(Len(tmp) \div channels) |->
             FrameSum(tmp, k - 1, channels, channels) \div channels]
    ELSE tmp

DownmixChunk ==
    \E channels \in 1..MaxChannels, tmp \in SeqsUpTo(SampleValues, MaxTmp) :
        /\ tmp # <<>>
        /\ last' = [op |-> "downmix", channels |-> channels, tmp |-> tmp,
                    mono |-> Downmix(tmp, channels)]
        /\ UNCHANGED <<now, db, budget, audioVars, playerVars, vizVars, pc, vlast>>

DownmixNext == DownmixChunk

DownmixSpec == Init /\ [][DownmixNext]_vars

(***************************************************************************)
(* SineSpec: the analyzer fed by a track of four samples holding one cycle *)
(* of a sine or a cosine sampled at four times its frequency, at half and  *)
(* at full scale, under every configuration of bar_count and smoothing.    *)
(* The FFT has size 4; the tone falls in bin 1.                            *)
(***************************************************************************)
Amplitudes == {50, 100}

Waves(a) == {<<0, a, 0, -a>>, <<a, 0, -a, 0>>}

SineLibrary(wave) ==
    << [ok |-> TRUE, dur |-> Some(1), len |-> 1, channels |-> 1, rate |-> 4000,
        mags |-> {}, wave |-> wave] >>

SineInit ==
    \E a \in Amplitudes, n \in 1..MaxBars, sm \in 0..SmoothDen :
        \E wave \in Waves(a) : Playing(SineLibrary(wave), n, sm, MaxPlays)

SineNext ==
    \/ UpdateVisualizerCopy
    \/ UpdateVisualizerClear
    \/ Timeout
    \/ AutoAdvance
    \/ Capture

SineSpec == SineInit /\ [][SineNext]_vars

(***************************************************************************)
(* BacklogSpec: one long track (21 chunks, more than twice the capacity of *)
(* the shared buffer) captured by its thread while the main loop copies,   *)
(* clears and analyzes, under every interleaving of the two from the point *)
(* where the thread has filled the shared buffer for the first time.       *)
(* Nothing is paused, so update_visualizer copies on every turn of the     *)
(* loop.                                                                   *)
(***************************************************************************)
BacklogLibrary ==
    << [ok |-> TRUE, dur |-> Some(21504), len |-> 21504, channels |-> 1, rate |-> 1000,
        mags |-> {10000}] >>

\* Playing(BacklogLibrary, 1, 0, MaxPlays), eight iterations of the capture
\* thread later: the main loop has not moved since play_selected (it is at
\* the auto-advance check) and the shared buffer is full
BacklogInit ==
    /\ now = 0
    /\ db = BacklogLibrary
    /\ budget = MaxPlays
    /\ sink = [track |-> 1, left |-> BacklogLibrary[1].len, paused |-> FALSE,
               volume |-> SinkDefaultVolume]
    /\ current_duration = BacklogLibrary[1].dur
    /\ sample_buffer = <<[s |-> 1, lo |-> 1, hi |-> BufferCap]>>
    /\ elapsed_millis = 0
    /\ start_time = Some(0)
    /\ pause_elapsed = 0
    /\ bridges = <<[track |-> 1, pos |-> BufferCap, done |-> FALSE]>>
    /\ stopped = FALSE
    /\ queue = <<1>>
    /\ current_track_index = Some(0)
    /\ list_state = 0
    /\ is_playing = TRUE
    /\ volume = InitialVolume
    /\ shuffle = FALSE
    /\ played_indices = <<>>
    /\ loopC = FALSE
    /\ bars = Zeros(1)
    /\ bar_count = 1
    /\ smoothing = 0
    /\ audio_buffer = <<>>
    /\ pc = "advance"
    /\ last = [op |-> "bridge", s |-> 1, n |-> ChunkFrames,
               preLen |-> BufferCap - ChunkFrames, live |-> TRUE]
    /\ vlast = [op |-> "new", newest |-> None]

BacklogNext ==
    \/ UpdateVisualizerCopy
    \/ UpdateVisualizerClear
    \/ Timeout
    \/ AutoAdvance
    \/ Capture

BacklogSpec == BacklogInit /\ [][BacklogNext]_vars

(***************************************************************************)
(* WindowSpec: the analyzer on buffers of many lengths: one track of n     *)
(* frames for each n of WindowLengths (lengths below, at and above a power *)
(* of two and the 2048 cap), captured and analyzed under every             *)
(* interleaving of the capture thread and the main loop.                   *)
(***************************************************************************)
WindowLengths == {1, 2, 3, 5, 1000, 1024, 1025, 2047, 2048, 2049, 3000, 4096, 5000}

WindowLibrary(n) ==
    << [ok |-> TRUE, dur |-> Some(n), len |-> n, channels |-> 1, rate |-> 1000,
        mags |-> {10000}] >>

WindowInit == \E n \in WindowLengths : Playing(WindowLibrary(n), 1, 0, MaxPlays)

WindowNext ==
    \/ UpdateVisualizerCopy
    \/ UpdateVisualizerClear
    \/ Timeout
    \/ AutoAdvance
    \/ Capture

WindowSpec == WindowInit /\ [][WindowNext]_vars

(***************************************************************************)
(* CaptureFairSpec: CaptureSpec with every capture thread scheduled        *)
(* fairly: a thread blocks only on the buffer's lock, which the main loop  *)
(* holds for the length of a copy or a clear, and on its pacing sleep,     *)
(* which is finite, so an iteration that can run eventually does.  The     *)
(* main loop itself may stop at any point.                                 *)
(***************************************************************************)
CaptureFairSpec ==
    /\ CaptureInit
    /\ [][CaptureNext]_vars
    /\ \A b \in 1..MaxPlays : WF_vars(b <= Len(bridges) /\ BridgeStep(b))

(***************************************************************************)
(* PacingSpec: the sleep that ends an iteration of the capture thread      *)
(* (audio.rs 149-157), for decoders of many sample rates: 0, every         *)
(* multiple of 1000 Hz up to 200 kHz, the usual audio rates and the rates  *)
(* around 102400 Hz, where 1024 frames last 10 ms.                         *)
(***************************************************************************)
SampleRates ==
    {0} \cup {k * 1000 : k \in 1..200}
        \cup {11025, 22050, 44100, 88200, 176400, 102399, 102400, 102401}

\* the sleep with a floor of 10 ms
SleepMillisAtLeastTen(sample_rate) ==
    IF sample_rate > 0 THEN Max(10, (ChunkFrames * 1000) \div sample_rate) ELSE 10

\* millis of the sleep: ((chunk_frames as f32 / sample_rate as f32) * 1000.0) as u64,
\* 10 for a sample rate of 0.  The two f32 roundings never carry the product
\* across an integer: for every u32 sample rate the truncated product is the
\* integer quotient of 1024000 by the rate.
SleepMillis(sample_rate) ==
    IF sample_rate > 0 THEN (ChunkFrames * 1000) \div sample_rate ELSE 10

PacingSleep ==
    \E sample_rate \in SampleRates :
        /\ last' = [op |-> "sleep", sample_rate |-> sample_rate,
                    millis |-> SleepMillis(sample_rate)]
        /\ UNCHANGED <<now, db, budget, audioVars, playerVars, vizVars, pc, vlast>>

PacingNext == PacingSleep

PacingSpec == Init /\ [][PacingNext]_vars

(***************************************************************************)
(* ReplaceSpec: play() in its two critical sections on the sink.  The old  *)
(* sink is stopped under one acquisition of the sink's lock (audio.rs      *)
(* 91-93) and the new one installed under a second (98); between the two   *)
(* the player is at "install".  play() is called by play_selected here.    *)
(* The readers of is_empty() are the calls of should_advance in the main   *)
(* loop (main.rs 273): AudioPlayer is owned by PlayerState, which only the *)
(* main loop touches; the event listener task and the capture threads hold *)
(* no reference to the sink.                                               *)
(***************************************************************************)
\* play_selected whose play() returns after it stopped the old sink
KeySelectStopOldReturns ==
    /\ pc = "event"
    /\ CanPlay
    /\ list_state < Len(db)
    /\ queue' = [i \in 1..Len(db) |-> i]
    /\ played_indices' = <<>>
    /\ LET t == queue'[list_state + 1]
       IN IF db[t].ok
          THEN /\ current_duration' = db[t].dur
               /\ elapsed_millis' = 0
               /\ start_time' = Some(now)
               /\ sink' = [sink EXCEPT !.left = 0]
               /\ pc' = "advance"
               /\ last' = [op |-> "replacing", track |-> t, wasLive |-> ~IsEmpty]
          ELSE /\ UNCHANGED <<sink, current_duration, elapsed_millis, start_time>>
               /\ pc' = "advance"
               /\ last' = [op |-> "play_failed", track |-> t,
                           pre |-> <<audioVars, current_track_index, is_playing>>]
    /\ UNCHANGED <<now, db, budget, sample_buffer, pause_elapsed, bridges, stopped,
                   current_track_index, list_state, is_playing, volume, shuffle, loopC,
                   vizVars, vlast>>

\* play_selected up to the point where play() has stopped the old sink and
\* released its lock (player.rs 247-253, audio.rs 71-93)
KeySelectStopOld ==
    /\ pc = "event"
    /\ CanPlay
    /\ list_state < Len(db)
    /\ queue' = [i \in 1..Len(db) |-> i]
    /\ played_indices' = <<>>
    /\ LET t == queue'[list_state + 1]
       IN IF db[t].ok
          THEN /\ current_duration' = db[t].dur
               /\ elapsed_millis' = 0
               /\ start_time' = Some(now)
               /\ sink' = [sink EXCEPT !.left = 0]
               /\ pc' = "install"
               /\ last' = [op |-> "replacing", track |-> t, wasLive |-> ~IsEmpty]
          ELSE /\ UNCHANGED <<sink, current_duration, elapsed_millis, start_time>>
               /\ pc' = "advance"
               /\ last' = [op |-> "play_failed", track |-> t,
                           pre |-> <<audioVars, current_track_index, is_playing>>]
    /\ UNCHANGED <<now, db, budget, sample_buffer, pause_elapsed, bridges, stopped,
                   current_track_index, list_state, is_playing, volume, shuffle, loopC,
                   vizVars, vlast>>

\* the rest of play() and of play_track (audio.rs 95-161, player.rs 164-171)
KeySelectInstall ==
    /\ pc = "install"
    /\ pc' = "advance"
    /\ LET t == queue[list_state + 1]
       IN /\ sink' = [track |-> t, left |-> db[t].len, paused |-> FALSE,
                      volume |-> SinkDefaultVolume]
          /\ bridges' = Append(bridges, [track |-> t, pos |-> 0, done |-> FALSE])
          /\ last' = [op |-> "play", track |-> t, wasPaused |-> sink.paused,
                      replacedLive |-> last.wasLive]
    /\ stopped' = FALSE
    /\ current_track_index' = Some(list_state)
    /\ is_playing' = TRUE
    /\ played_indices' = IF shuffle THEN <<list_state>> ELSE played_indices
    /\ UNCHANGED <<now, db, budget, current_duration, sample_buffer, elapsed_millis,
                   start_time, pause_elapsed, queue, list_state, volume, shuffle, loopC,
                   vizVars, vlast>>

ReplaceNext ==
    \/ UpdateVisualizerCopy
    \/ UpdateVisualizerClear
    \/ KeySelectStopOld
    \/ KeySelectInstall
    \/ KeyDown
    \/ KeyClear
    \/ Timeout
    \/ AutoAdvance
    \/ PassTime

ReplaceSpec == Init /\ [][ReplaceNext]_vars

(***************************************************************************)
(* PacedSpec: the capture thread at its own pace against the playback      *)
(* clock.  One mono track of 1024 frames per second, so a chunk lasts      *)
(* 1000 ms and the thread sleeps 1000 ms after each iteration; the thread  *)
(* is spawned at time 0 and its k-th iteration (from 0) is due at          *)
(* k * 1000 ms.  Time passes only when no iteration is overdue: the thread *)
(* wakes on time.  The user pauses, resumes and seeks.  The track outlasts *)
(* the horizon, so there is one session.                                   *)
(***************************************************************************)
PacedLibrary ==
    << [ok |-> TRUE, dur |-> Some(9000), len |-> 9000, channels |-> 1, rate |-> 1024,
        mags |-> {10000}] >>

PacedInit == Playing(PacedLibrary, 1, 0, MaxPlays)

\* the next iteration of thread b has slept its sleeps
Due(b) ==
    /\ ~bridges[b].done
    /\ (bridges[b].pos \div ChunkFrames) * SleepMillis(db[bridges[b].track].rate) <= now

PacedCapture == \E b \in 1..Len(bridges) : Due(b) /\ BridgeStep(b)

PacedPassTime ==
    /\ \A b \in 1..Len(bridges) : ~Due(b)
    /\ PassTime

PacedNext ==
    \/ UpdateVisualizerCopy
    \/ UpdateVisualizerClear
    \/ KeyTogglePlayback
    \/ KeySeekForward
    \/ KeySeekBackward
    \/ Timeout
    \/ AutoAdvance
    \/ PacedCapture
    \/ PacedPassTime

PacedSpec == PacedInit /\ [][PacedNext]_vars

(***************************************************************************)
(* QueueSpec: the queue operations of PlayerState under every key that     *)
(* starts, skips, shuffles, loops, selects, searches and clears, with the  *)
(* auto-advance and the clock.  The database is one of: no track; the      *)
(* three tracks of Library (the second cannot be played); two short        *)
(* playable tracks; three short playable tracks.  The capture threads are  *)
(* spawned and take no step here.                                          *)
(***************************************************************************)
ShortTrack == [ok |-> TRUE, dur |-> Some(1500), len |-> 1500, channels |-> 1, rate |-> 200,
               mags |-> {10000}]

QueueLibraries == {<<>>, Library, <<ShortTrack, ShortTrack>>,
                   <<ShortTrack, ShortTrack, ShortTrack>>}

QueueInit == \E lib \in QueueLibraries : Started(lib, 1, 0, MaxPlays + 1)

\* search_submit: the first search result, if the query matched a title,
\* becomes the selection and is played; any track may be the first match
KeySearchSubmit ==
    /\ KeyDone
    /\ CanPlay
    /\ \/ \E first \in 0..(Len(db) - 1) :
              /\ list_state' = first
              /\ queue' = [i \in 1..Len(db) |-> i]
              /\ PlayTrack(queue', first, <<>>)
       \/ UNCHANGED <<list_state, queue, audioVars, current_track_index, is_playing,
                      played_indices, last>>
    /\ UNCHANGED <<now, db, budget, volume, shuffle, loopC, vizVars, vlast>>

QueueNext ==
    \/ UpdateVisualizerCopy
    \/ UpdateVisualizerClear
    \/ KeyTogglePlayback
    \/ KeyNext
    \/ KeyPrevious
    \/ KeySelect
    \/ KeySearchSubmit
    \/ KeyUp
    \/ KeyDown
    \/ KeyClear
    \/ KeyShuffle
    \/ KeyLoop
    \/ Timeout
    \/ AutoAdvance
    \/ PassTime

QueueSpec == QueueInit /\ [][QueueNext]_vars

(***************************************************************************)
(* AdvanceFairSpec: the main loop left to run after the first track of     *)
(* Library was started, the second track of the queue being one that       *)
(* cannot be played.  The user may pause, resume and switch loop mode;     *)
(* shuffle stays off, so no step is a random pick.  The loop never blocks: *)
(* update_visualizer returns, the wait for a key ends after 16 ms at the   *)
(* latest and the auto-advance check returns, hence the weak fairness of   *)
(* these steps.                                                            *)
(***************************************************************************)
AdvanceFairNext ==
    \/ UpdateVisualizerCopy
    \/ UpdateVisualizerClear
    \/ KeyTogglePlayback
    \/ KeyLoop
    \/ Timeout
    \/ AutoAdvance
    \/ PassTime

AdvanceFairSpec ==
    /\ Playing(Library, 1, 0, MaxPlays)
    /\ [][AdvanceFairNext]_vars
    /\ WF_vars(UpdateVisualizerCopy)
    /\ WF_vars(UpdateVisualizerClear)
    /\ WF_vars(Timeout)
    /\ WF_vars(AutoAdvance)

(***************************************************************************)
(* The progress gauge (ui.rs 311-340): the percentage render_progress      *)
(* hands to the gauge.  It is computed in f32 and cast to u16, a cast that *)
(* truncates and saturates at 65535.                                       *)
(***************************************************************************)
Percent ==
    IF current_duration # None /\ current_duration[1] > 0
    THEN Min(65535, (ElapsedMs * 100) \div current_duration[1])
    ELSE 0

\* the main loop is at its draw: update_visualizer has returned and the wait
\* for a key has not begun
AtDraw == pc = "event" /\ last.op # "advance"

(***************************************************************************)
(* LockSpec: the two buffer mutexes.  AudioPlayer.sample_buffer is locked  *)
(* by the main loop (update_visualizer, stop) and by every capture thread; *)
(* Visualizer.audio_buffer is locked by the main loop only.  A guard lives *)
(* to the end of its statement or block or to its drop(), so here a step   *)
(* that takes a lock is enabled only while the lock is free, and the       *)
(* holder is read off the holder's position: the main loop holds           *)
(* sample_buffer at "copy_s", "copy_sv" and "copied_s" and audio_buffer at *)
(* "copy_sv"; a capture thread holds sample_buffer while its record has    *)
(* the field holds.  One short mono track of one chunk; every Enter        *)
(* starts it again and spawns one more capture thread beside the ones      *)
(* still running.  The wall clock stands still.                            *)
(***************************************************************************)
LockLibrary ==
    << [ok |-> TRUE, dur |-> Some(1000), len |-> 1000, channels |-> 1, rate |-> 1024,
        mags |-> {10000}] >>

LockInit == Playing(LockLibrary, 1, 0, MaxPlays)

\* capture thread b is inside its locked block (audio.rs 136-140, 142-146)
Locked(b) == "holds" \in DOMAIN bridges[b]

\* nobody holds the mutex of sample_buffer
SampleBufferFree ==
    /\ pc \notin {"copy_s", "copy_sv", "copied_s"}
    /\ \A b \in 1..Len(bridges) : ~Locked(b)

\* nobody holds the mutex of audio_buffer
AudioBufferFree == pc # "copy_sv"

LockFrame ==
    UNCHANGED <<now, db, budget, sink, current_duration, elapsed_millis, start_time,
                pause_elapsed, stopped, playerVars, bars, bar_count, smoothing, vlast>>

\* a capture thread pulled a chunk and takes the lock
LockBridgeAcquire(b) ==
    /\ ~bridges[b].done
    /\ ~Locked(b)
    /\ Chunk(b) > 0
    /\ SampleBufferFree
    /\ bridges' = [bridges EXCEPT ![b] = [track |-> @.track, pos |-> @.pos, done |-> @.done,
                                           holds |-> "sample_buffer"]]
    /\ UNCHANGED <<sample_buffer, audio_buffer, pc, last>>
    /\ LockFrame

\* a capture thread that keeps the lock after its append
LockBridgeAppendKeepsLock(b) ==
    /\ Locked(b)
    /\ Chunk(b) > 0
    /\ LET n == Chunk(b)
       IN /\ bridges' = [bridges EXCEPT ![b].pos = @ + n]
          /\ sample_buffer' = AppendTrim(sample_buffer,
                                 [s |-> b, lo |-> bridges[b].pos + 1,
                                  hi |-> bridges[b].pos + n])
          /\ last' = [op |-> "bridge", s |-> b, n |-> n,
                      preLen |-> BufLen(sample_buffer),
                      live |-> (b = Session /\ ~stopped)]
    /\ UNCHANGED <<audio_buffer, pc>>
    /\ LockFrame

\* the locked block: extend, trim, and the guard is dropped at its end
LockBridgeAppend(b) ==
    /\ Locked(b)
    /\ LET n == Chunk(b)
       IN /\ bridges' = [bridges EXCEPT ![b] = [track |-> @.track, pos |-> @.pos + n,
                                                 done |-> @.done]]
          /\ sample_buffer' = AppendTrim(sample_buffer,
                                 [s |-> b, lo |-> bridges[b].pos + 1,
                                  hi |-> bridges[b].pos + n])
          /\ last' = [op |-> "bridge", s |-> b, n |-> n,
                      preLen |-> BufLen(sample_buffer),
                      live |-> (b = Session /\ ~stopped)]
    /\ UNCHANGED <<audio_buffer, pc>>
    /\ LockFrame

\* a capture thread pulled nothing and leaves
LockBridgeExit(b) ==
    /\ ~Locked(b)
    /\ Chunk(b) = 0
    /\ BridgeStep(b)

\* player.rs 273-276: let samples = sample_buffer.lock().unwrap()
LockCopyAcquire ==
    /\ pc = "viz"
    /\ IF is_playing
       THEN SampleBufferFree /\ pc' = "copy_s"
       ELSE pc' = "event"
    /\ UNCHANGED <<bridges, sample_buffer, audio_buffer, last>>
    /\ LockFrame

\* player.rs 279-280: let mut viz_buf = viz_buffer.lock().unwrap(), with
\* samples held
LockCopyAcquireViz ==
    /\ pc = "copy_s"
    /\ AudioBufferFree
    /\ pc' = "copy_sv"
    /\ UNCHANGED <<bridges, sample_buffer, audio_buffer, last>>
    /\ LockFrame

\* player.rs 281-282: viz_buf.extend_from_slice(&samples); drop(viz_buf)
LockCopyExtend ==
    /\ pc = "copy_sv"
    /\ audio_buffer' = Extend(audio_buffer, sample_buffer)
    /\ pc' = "copied_s"
    /\ UNCHANGED <<bridges, sample_buffer, last>>
    /\ LockFrame

\* player.rs 285: drop(samples)
LockCopyRelease ==
    /\ pc = "copied_s"
    /\ pc' = "clear"
    /\ last' = [op |-> "copy"]
    /\ UNCHANGED <<bridges, sample_buffer, audio_buffer>>
    /\ LockFrame

\* player.rs 286-289: sample_buffer.lock().unwrap().clear(), then
\* Visualizer::update, which holds audio_buffer until it returns
LockClear ==
    /\ SampleBufferFree
    /\ AudioBufferFree
    /\ UpdateVisualizerClear

\* clear_queue up to sink.stop() (player.rs 259-261, audio.rs 189)
LockStopSink ==
    /\ pc = "event"
    /\ pc' = "stop"
    /\ queue' = <<>>
    /\ current_track_index' = None
    /\ sink' = [sink EXCEPT !.left = 0]
    /\ UNCHANGED <<now, db, budget, current_duration, sample_buffer, elapsed_millis,
                   start_time, pause_elapsed, bridges, stopped, list_state, is_playing,
                   volume, shuffle, played_indices, loopC, vizVars, last, vlast>>

\* the rest of stop() and of clear_queue (audio.rs 190-192, player.rs 262-263)
LockStopClear ==
    /\ pc = "stop"
    /\ SampleBufferFree
    /\ pc' = "advance"
    /\ sample_buffer' = <<>>
    /\ elapsed_millis' = 0
    /\ start_time' = None
    /\ stopped' = TRUE
    /\ is_playing' = FALSE
    /\ played_indices' = <<>>
    /\ last' = [op |-> "stop", wasPaused |-> sink.paused, wasEmpty |-> IsEmpty]
    /\ UNCHANGED <<now, db, budget, sink, current_duration, pause_elapsed, bridges, queue,
                   current_track_index, list_state, volume, shuffle, loopC, vizVars, vlast>>

LockBridgeNext ==
    \E b \in 1..Len(bridges) :
        \/ LockBridgeAcquire(b)
        \/ LockBridgeAppend(b)
        \/ LockBridgeExit(b)

LockNext ==
    \/ LockCopyAcquire
    \/ LockCopyAcquireViz
    \/ LockCopyExtend
    \/ LockCopyRelease
    \/ LockClear
    \/ KeySelect
    \/ LockStopSink
    \/ LockStopClear
    \/ Timeout
    \/ AutoAdvance
    \/ LockBridgeNext

LockSpec == LockInit /\ [][LockNext]_vars

\* the steps of the main loop that no key decides
LockMainStep ==
    \/ LockCopyAcquire
    \/ LockCopyAcquireViz
    \/ LockCopyExtend
    \/ LockCopyRelease
    \/ LockClear
    \/ LockStopClear
    \/ Timeout
    \/ AutoAdvance

\* the main loop holds the mutex of sample_buffer
MainHoldsSampleBuffer == pc \in {"copy_s", "copy_sv", "copied_s"}

(***************************************************************************)
(* C1: immediately after a seek, with a known duration, elapsed_ms() is    *)
(* the target clamped to [0, duration].                                    *)
(***************************************************************************)
C1_SeekYieldsClampedTarget ==
    (last.op = "seek" /\ current_duration # None)
        => ElapsedMs = Clamp(last.target, 0, current_duration[1])

(***************************************************************************)
(* C2: pause() then resume() with no time passing between them leaves      *)
(* elapsed_ms() as it was read right before the pause.                     *)
(***************************************************************************)
C2_PauseResumeKeepsElapsed ==
    (last.op = "resume" /\ last.afterPause) => ElapsedMs = last.before

C2_Witness ==
    last.op = "resume" /\ last.afterPause /\ last.before > 0 /\ ~sink.paused

(***************************************************************************)
(* C3: while the sink is paused elapsed_ms() is the value captured at      *)
(* pause(): a step that ends paused (the pause itself, the passage of      *)
(* time, a seek, a stop) leaves it unchanged, and resume() continues from  *)
(* it.                                                                     *)
(***************************************************************************)
C3_PausedClockFrozen ==
    [][ /\ sink'.paused => ElapsedMs' = ElapsedMs
        /\ (sink.paused /\ ~sink'.paused /\ last'.op = "resume")
               => ElapsedMs' = ElapsedMs ]_vars

C3_Witness ==
    /\ last.op = "resume" /\ last.wasPaused
    /\ last.raw > last.frozen
    /\ last.frozen > 0

(***************************************************************************)
(* C4: right after stop() the sample buffer is empty, elapsed_ms() is 0,   *)
(* the sink is empty and the playing flag is false.                        *)
(***************************************************************************)
C4_StopResets ==
    last.op = "stop"
        => (sample_buffer = <<>> /\ ElapsedMs = 0 /\ IsEmpty /\ ~is_playing)

C6_OnlyLiveBridgeAppends ==
    last.op = "bridge" => last.live

(***************************************************************************)
(* C7: the shared sample buffer never holds more than 8192 samples between *)
(* two critical sections, and an append that raises the length above 8192  *)
(* drops exactly the oldest 4096 samples: the appended chunk stays at the  *)
(* tail of the buffer.                                                     *)
(***************************************************************************)
C7_BufferBounded ==
    /\ BufLen(sample_buffer) <= BufferCap
    /\ last.op = "bridge" =>
          /\ BufLen(sample_buffer) =
                last.preLen + last.n
                    - (IF last.preLen + last.n > BufferCap THEN TrimCount ELSE 0)
          /\ sample_buffer[Len(sample_buffer)].s = last.s
          /\ sample_buffer[Len(sample_buffer)].hi = bridges[last.s].pos

C7_Witness ==
    /\ last.op = "bridge"
    /\ last.preLen + last.n > BufferCap
    /\ BufLen(sample_buffer) = last.preLen + last.n - TrimCount


(***************************************************************************)
(* C8: for every bar_count >= 1 and every smoothing in [0, 1], after any   *)
(* sequence of analyzer updates the bars sequence has length bar_count and *)
(* every bar lies in [0.0, 1.0].                                           *)
(***************************************************************************)
C8_BarsInRange ==
    /\ Len(bars) = bar_count
    /\ \A i \in 1..Len(bars) : bars[i] >= 0 /\ bars[i] <= One

\* an update on a window with fewer bins than bars drove a bar to full scale
C8_Witness ==
    /\ vlast.op = "update"
    /\ vlast.len = 2
    /\ bar_count = 2
    /\ smoothing = 0
    /\ bars = <<One, One>>

(***************************************************************************)
(* C9 as stated: with an empty buffer and smoothing < 1, an analyzer       *)
(* update strictly decreases every positive bar.                           *)
(***************************************************************************)
C9_EmptyUpdateStrictlyDecreases ==
    (vlast.op = "update" /\ vlast.len = 0 /\ smoothing < SmoothDen)
        => \A i \in 1..Len(bars) : vlast.bars[i] > 0 => bars[i] < vlast.bars[i]

(***************************************************************************)
(* C9 amended: with an empty buffer, an analyzer update replaces every bar *)
(* by its product with the smoothing factor, rounded to the nearest        *)
(* representable value, and changes nothing else: no bar increases, and a  *)
(* positive bar strictly decreases whenever bar * (1 - smoothing) exceeds  *)
(* half the spacing of the representable values.                           *)
(***************************************************************************)
C9_EmptyUpdateDecays ==
    [][ (pc = "clear" /\ pc' = "event" /\ audio_buffer = <<>>) =>
            /\ UNCHANGED <<audio_buffer, bar_count, smoothing>>
            /\ Len(bars') = Len(bars)
            /\ \A i \in 1..Len(bars) :
                  /\ bars'[i] = MulRound(bars[i], smoothing, SmoothDen)
                  /\ bars'[i] <= bars[i]
                  /\ (2 * bars[i] * (SmoothDen - smoothing) > SmoothDen)
                         => bars'[i] < bars[i] ]_vars

\* a bar has decayed over an empty buffer and then stayed at a positive value
C9_Witness ==
    /\ vlast.op = "update"
    /\ vlast.len = 0
    /\ smoothing < SmoothDen
    /\ \E i \in 1..Len(bars) : bars[i] > 0 /\ bars[i] = vlast.bars[i] /\ bars[i] < One


(***************************************************************************)
(* C10: set_volume(v) clamps v to the nearest bound of [0, 1]: right after *)
(* the call the volume of the sink, which get_volume returns, is v clamped *)
(* to [0, 1].                                                              *)
(***************************************************************************)
C10_SetVolumeClamps ==
    last.op = "set_volume" => sink.volume = Clamp(last.v, 0, FullVolume)

(***************************************************************************)
(* C11: the volume persists across track changes: right after a successful *)
(* play() the volume of the live sink is the volume last set through       *)
(* PlayerState (initially 0.2).                                            *)
(***************************************************************************)
C11_VolumePersists ==
    last.op = "play" => sink.volume = volume

(***************************************************************************)
(* C12: for a chunk from a decoder with c > 1 channels the capture thread  *)
(* appends one mono sample per complete frame, the mean of the frame's c   *)
(* channel values, in frame order (stereo: (L + R) / 2); for c = 1 the     *)
(* samples are appended unchanged.                                         *)
(***************************************************************************)
C12_DownmixIsFrameMean ==
    last.op = "downmix" =>
        LET c == last.channels
            tmp == last.tmp
            mono == last.mono
        IN /\ c = 1 => mono = tmp
           /\ c > 1 =>
                /\ Len(mono) = Len(tmp) \div c
                /\ \A k \in 1..Len(mono) :
                      mono[k] = FrameSum(tmp, k - 1, c, c) \div c
           /\ c = 2 =>
                \A k \in 1..Len(mono) : 2 * mono[k] = tmp[2 * k - 1] + tmp[2 * k]

\* a stereo chunk of two frames whose channels differ
C12_Witness ==
    /\ last.op = "downmix"
    /\ last.channels = 2
    /\ last.tmp = <<6, -6, 6, 6>>
    /\ last.mono = <<0, 6>>

(***************************************************************************)
(* C13: seek_forward moves elapsed to min(elapsed + 10000 ms, duration):   *)
(* right after it elapsed_ms() is that value, never beyond the duration.   *)
(***************************************************************************)
C13_SeekForwardClampsToDuration ==
    (last.op = "seek" /\ last.dir = "forward" /\ current_duration # None)
        => ElapsedMs = Min(last.from + SeekStep, current_duration[1])

(***************************************************************************)
(* C14: seek_backward moves elapsed to max(elapsed - 10000 ms, 0): from    *)
(* any position less than 10000 ms into the track elapsed_ms() is 0 right  *)
(* after it.                                                               *)
(***************************************************************************)
C14_SeekBackwardClampsToZero ==
    (last.op = "seek" /\ last.dir = "backward" /\ last.from < SeekStep)
        => ElapsedMs = 0

(***************************************************************************)
(* C15: right after every successful play(), whatever the state before it, *)
(* elapsed_ms() is 0 and the player is not paused.                         *)
(***************************************************************************)
C15_PlayResetsClock ==
    last.op = "play" => (ElapsedMs = 0 /\ ~sink.paused)

\* a play() on a player that was paused at a non-zero position, later than 0
C15_Witness ==
    /\ last.op = "play"
    /\ last.wasPaused
    /\ pause_elapsed > 0
    /\ now > 0
    /\ ElapsedMs = 0

(***************************************************************************)
(* C16: a seek repositions the audio output as well as the clock: right    *)
(* after it the position of the audio the sink plays is elapsed_ms() (the  *)
(* end of the track when elapsed_ms() is beyond it).                       *)
(***************************************************************************)
C16_SeekRepositionsOutput ==
    (last.op = "seek" /\ sink.track # 0 /\ ~IsEmpty)
        => db[sink.track].len - sink.left = Min(ElapsedMs, db[sink.track].len)

C18_PausedSeekKept ==
    /\ (last.op = "seek" /\ last.wasPaused) =>
          /\ sink.paused
          /\ ElapsedMs = IF current_duration # None
                         THEN Clamp(last.target, 0, current_duration[1])
                         ELSE Max(0, last.target)
    /\ (last.op = "resume" /\ last.pausedSeek # None) =>
          ElapsedMs = IF current_duration # None
                      THEN Min(last.pausedSeek[1], current_duration[1])
                      ELSE last.pausedSeek[1]

(***************************************************************************)
(* C19: after stop() the shared sample buffer stays empty until the next   *)
(* successful play(): the capture thread of the stopped session appends    *)
(* nothing further.                                                        *)
(***************************************************************************)
C19_BufferEmptyWhileStopped ==
    stopped => sample_buffer = <<>>

(***************************************************************************)
(* C20: no captured sample is lost in the hand-off to the analyzer: when   *)
(* update_visualizer clears the shared buffer, every sample in it has been *)
(* copied to the analyzer's buffer, also a sample appended between the     *)
(* copy and the clear.                                                     *)
(***************************************************************************)
C20_NoSampleLostInHandOff ==
    last.op = "drain" => ~last.uncopied

(***************************************************************************)
(* C21: the backlog of captured samples not yet analyzed is bounded by a   *)
(* constant whatever the interleaving of capture iterations and turns of   *)
(* the main loop: outside update_visualizer's hand-off (where the copied   *)
(* samples are in both buffers) sample_buffer and the analyzer's           *)
(* audio_buffer together never hold more than a full shared buffer and one *)
(* full copy of it.                                                        *)
(***************************************************************************)
C21_BacklogBounded ==
    pc # "clear" => BufLen(sample_buffer) + BufLen(audio_buffer) <= 2 * BufferCap

(***************************************************************************)
(* C22: the bars keep decaying when nothing is playing: on a turn of the   *)
(* main loop while paused or after stop/clear_queue, with no samples left  *)
(* to analyze, update_visualizer multiplies every bar by the smoothing     *)
(* factor.                                                                 *)
(***************************************************************************)
C22_BarsDecayWhenNotPlaying ==
    [][ (pc = "viz" /\ pc' = "event" /\ ~is_playing /\ audio_buffer = <<>>) =>
            \A i \in 1..Len(bars) : bars'[i] = MulRound(bars[i], smoothing, SmoothDen) ]_vars

(***************************************************************************)
(* C23: an analyzer update on a non-empty buffer of n samples uses         *)
(* fft_size = min(2048, next_power_of_two(n)) (the least power of two that *)
(* is at least n, capped at 2048), removes the first min(n, fft_size)      *)
(* samples of the buffer, pads the window with fft_size - n zeros when     *)
(* n < fft_size, and leaves max(0, n - 2048) samples in the buffer.        *)
(***************************************************************************)
C23_WindowTaken ==
    [][ (pc = "clear" /\ pc' = "event" /\ audio_buffer # <<>>) =>
            LET n == BufLen(audio_buffer)
                fft_size == vlast'.fft
            IN /\ vlast'.len = n
               /\ \E e \in 0..11 : fft_size = 2^e
               /\ fft_size <= MaxFft
               /\ fft_size >= Min(n, MaxFft)
               /\ fft_size > 1 => fft_size \div 2 < n
               /\ vlast'.taken = Min(n, fft_size)
               /\ audio_buffer' = DropFront(audio_buffer, Min(n, fft_size))
               /\ BufLen(audio_buffer') = Max(0, n - MaxFft) ]_vars

\* updates have taken a full window from a longer buffer and then a padded one
C23_Witness ==
    /\ vlast.op = "update"
    /\ vlast.len = 952
    /\ vlast.fft = 1024
    /\ vlast.taken = 952
    /\ audio_buffer = <<>>
    /\ bridges[1].pos = 3000

(***************************************************************************)
(* C24: in the FFT path of update, bar i is recomputed only from a         *)
(* non-empty group of bins [i*w, (i+1)*w) within the first fft_size/2      *)
(* bins, w = (fft_size/2) / bar_count: a bar whose group is empty (every   *)
(* bar when bar_count > fft_size/2) keeps its previous value.              *)
(***************************************************************************)
C24_EmptyGroupKeepsBar ==
    (vlast.op = "update" /\ vlast.len > 0) =>
        LET spectrum_size == vlast.fft \div 2
            w == spectrum_size \div bar_count
        IN \A i \in 1..Len(bars) :
              (Min(i * w, spectrum_size) <= (i - 1) * w) => bars[i] = vlast.bars[i]

(***************************************************************************)
(* C25: in the FFT path of update, with smoothing = 1.0 every bar is left  *)
(* unchanged whatever the samples are, and with smoothing = 0.0 every      *)
(* recomputed bar equals the scaled value computed from the window, for    *)
(* one choice of the window's spectrum, whatever the bar was before.       *)
(***************************************************************************)
C25_SmoothingExtremes ==
    [][ (pc = "clear" /\ pc' = "event" /\ audio_buffer # <<>>) =>
            LET spectrum_size == FftSize(BufLen(audio_buffer)) \div 2
                w == spectrum_size \div bar_count
                recomputed(i) == (i - 1) * w < spectrum_size
                empty(i) == Min(i * w, spectrum_size) = (i - 1) * w
            IN /\ smoothing = SmoothDen => bars' = bars
               /\ smoothing = 0 =>
                     \E m \in MagChoices :
                         \A i \in 1..Len(bars) :
                             recomputed(i) =>
                                 bars'[i] = LogScaled(Normalized(IF empty(i) THEN NaN
                                                                 ELSE m[i])) ]_vars

\* with smoothing 0.0 a bar at full scale dropped to 0.0 in one update
C25_Witness ==
    /\ vlast.op = "update"
    /\ vlast.len = 2
    /\ bar_count = 1
    /\ smoothing = 0
    /\ vlast.bars[1] = One
    /\ bars[1] = 0

(***************************************************************************)
(* C26: every capture thread terminates: under fair scheduling, a thread   *)
(* reading a finite file eventually pulls no samples and leaves its loop,  *)
(* whatever the main loop does; the iteration that pulls no samples        *)
(* appends nothing, and after it the thread neither reads nor appends      *)
(* again.                                                                  *)
(***************************************************************************)
C26_BridgeTerminates ==
    /\ <>[](\A b \in 1..Len(bridges) : bridges[b].done)
    /\ [][ \A b \in 1..Len(bridges) :
              /\ bridges[b].done => bridges'[b] = bridges[b]
              /\ (~bridges[b].done /\ bridges'[b].done) =>
                    /\ Chunk(b) = 0
                    /\ sample_buffer' = sample_buffer
              /\ (bridges[b].done /\ last' # last) => ~(last'.op = "bridge" /\ last'.s = b)
       ]_vars

\* the thread has read the whole track, trimmed on the way, and left its loop
C26_Witness ==
    /\ bridges[1].done
    /\ bridges[1].pos = Frames(db[1])
    /\ BufLen(sample_buffer) = Frames(db[1]) - TrimCount

(***************************************************************************)
(* C27 as stated: for every sample rate the sleep of an iteration is       *)
(* floor(1024 * 1000 / sample_rate) ms but never less than 10 ms.          *)
(***************************************************************************)
C27_SleepAtLeastTenMillis ==
    last.op = "sleep" => last.millis >= 10

(***************************************************************************)
(* C27 amended: for a sample rate above 0 the sleep of an iteration is     *)
(* floor(1024 * 1000 / sample_rate) ms with no lower bound (less than      *)
(* 10 ms exactly for the rates above 102400 Hz, 0 ms above 1024000 Hz);    *)
(* 10 ms is the sleep for a sample rate of 0 only.                         *)
(***************************************************************************)
C27_SleepIsChunkDuration ==
    last.op = "sleep" =>
        LET r == last.sample_rate
            ms == last.millis
        IN /\ r = 0 => ms = 10
           /\ r > 0 => /\ ms >= 0
                       /\ ms * r <= 1024 * 1000
                       /\ (ms + 1) * r > 1024 * 1000
                       /\ (ms < 10 <=> r > 102400)

\* the sleep for a 192 kHz file is 5 ms
C27_Witness ==
    last.op = "sleep" /\ last.sample_rate = 192000 /\ last.millis = 5

C29_FifoOrder ==
    /\ [](\A buf \in {audio_buffer, sample_buffer} :
             \A j \in 1..Len(buf) :
                 /\ buf[j].lo <= buf[j].hi
                 /\ \A k \in (j + 1)..Len(buf) :
                       buf[j].s = buf[k].s => buf[j].hi < buf[k].lo)
    /\ [](pc # "clear" =>
             \A j \in 1..Len(audio_buffer), k \in 1..Len(sample_buffer) :
                 audio_buffer[j].s = sample_buffer[k].s
                     => audio_buffer[j].hi < sample_buffer[k].lo)
    /\ [][ (last'.op = "bridge" /\ last' # last) =>
              \E k \in {0, TrimCount} :
                  sample_buffer' =
                      DropFront(Extend(sample_buffer,
                                       <<[s |-> last'.s, lo |-> bridges[last'.s].pos + 1,
                                          hi |-> bridges'[last'.s].pos]>>), k) ]_vars
    /\ [][ (pc = "clear" /\ pc' = "event" /\ audio_buffer # <<>>) =>
              LET window == TakeFront(audio_buffer, vlast'.taken)
              IN /\ vlast'.taken > 0
                 /\ audio_buffer' = DropFront(audio_buffer, vlast'.taken)
                 /\ vlast'.newest = Some([s |-> window[Len(window)].s,
                                          hi |-> window[Len(window)].hi])
                 /\ \A j \in 1..Len(window), k \in 1..Len(audio_buffer') :
                       window[j].s = audio_buffer'[k].s
                           => window[j].hi < audio_buffer'[k].lo
                 /\ vlast.newest # None =>
                       \A k \in 1..Len(window) :
                           vlast.newest[1].s = window[k].s
                               => vlast.newest[1].hi < window[k].lo ]_vars

\* after a trim of the shared buffer the analyzer took a window that skips
\* the trimmed samples and follows the window before it
C29_Witness ==
    /\ vlast.op = "update"
    /\ vlast.taken = MaxFft
    /\ vlast.newest[1].hi = TrimCount + 2 * MaxFft
    /\ bridges[1].pos > BufferCap
    /\ audio_buffer # <<>>

(***************************************************************************)
(* C30: the capture thread stays loosely aligned with audible playback:    *)
(* across play, pause, resume and seek, whenever the thread has caught up  *)
(* with its own schedule, the track position it has decoded to is within   *)
(* two chunks of the playback clock's elapsed position, ahead or behind;   *)
(* in particular it does not keep advancing while playback is paused.      *)
(***************************************************************************)
C30_BridgeAlignedWithClock ==
    (\A b \in 1..Len(bridges) : ~Due(b)) =>
        \A b \in 1..Len(bridges) :
            (b = Session /\ ~bridges[b].done) =>
                LET rate == db[bridges[b].track].rate
                    decoded_ms == (bridges[b].pos * 1000) \div rate
                    chunk_ms == (ChunkFrames * 1000) \div rate
                IN /\ decoded_ms - ElapsedMs <= 2 * chunk_ms
                   /\ ElapsedMs - decoded_ms <= 2 * chunk_ms

(***************************************************************************)
(* C31: played_indices never holds an index twice or an index outside the  *)
(* queue.  In shuffle mode next_track (from the key or the auto-advance)   *)
(* requests an index that is not in played_indices as long as some queue   *)
(* index is missing from it; once every index is in it the cycle restarts  *)
(* and, in a queue of at least two tracks, the requested index is not the  *)
(* current one.                                                            *)
(***************************************************************************)
C31_ShuffleNoRepeat ==
    /\ [](\A k \in 1..Len(played_indices) :
              /\ played_indices[k] \in 0..(Len(queue) - 1)
              /\ \A j \in 1..Len(played_indices) :
                     j # k => played_indices[j] # played_indices[k])
    /\ [][(/\ shuffle
           /\ queue # <<>>
           /\ (KeyNext \/ (ShouldAdvance /\ ~loopC /\ AutoAdvance)))
          => IF {played_indices[k] : k \in 1..Len(played_indices)} # 0..(Len(queue) - 1)
             THEN ~Contains(played_indices, last'.track - 1)
             ELSE Len(queue) >= 2 => Some(last'.track - 1) # current_track_index]_vars

\* a queue of two tracks in shuffle mode: the first was selected, the second
\* came next, and with both played the cycle restarted on the first
C31_Witness ==
    /\ shuffle
    /\ Len(queue) = 2
    /\ [b \in 1..Len(bridges) |-> bridges[b].track] = <<1, 2, 1>>
    /\ played_indices = <<1, 0>>
    /\ current_track_index = Some(0)
    /\ last.op = "play"

(***************************************************************************)
(* C32: an auto-advance whose play() failed is not repeated forever on the *)
(* same track: whenever an auto-advance has just failed on a track, later  *)
(* either a play of another track is attempted or the auto-advance         *)
(* condition no longer holds.                                              *)
(***************************************************************************)
C32_FailedAdvanceNotRetriedForever ==
    \A t \in 1..Len(Library) :
        (pc = "viz" /\ last.op = "play_failed" /\ last.track = t)
            ~> (\/ ~ShouldAdvance
                \/ (last.op \in {"play", "play_failed"} /\ last.track # t))

(***************************************************************************)
(* C33: while is_playing holds a track is loaded: current_track_index is   *)
(* Some and the sink holds the track at that index from a successful       *)
(* play(); and toggle_playback with no track loaded (no current track and  *)
(* an empty queue) neither sets is_playing nor starts the elapsed clock.   *)
(***************************************************************************)
C33_PlayingImpliesTrackLoaded ==
    /\ [](is_playing =>
              /\ current_track_index # None
              /\ current_track_index[1] < Len(queue)
              /\ sink.track = queue[current_track_index[1] + 1])
    /\ [][(KeyTogglePlayback /\ current_track_index = None /\ queue = <<>>)
          => (~is_playing' /\ start_time' = start_time)]_vars

(***************************************************************************)
(* C34: the percentage handed to the progress gauge is at most 100 at      *)
(* every draw.                                                             *)
(***************************************************************************)
C34_ProgressAtMostHundred == AtDraw => Percent <= 100

(***************************************************************************)
(* C35: current_track_index is None or an index into the queue, and a step *)
(* changes it only if a play() succeeded in that step (a capture thread    *)
(* was spawned) or the queue was cleared, which leaves it None.            *)
(***************************************************************************)
C35_CurrentIndexValid ==
    /\ [](current_track_index = None \/ current_track_index[1] \in 0..(Len(queue) - 1))
    /\ [][current_track_index' # current_track_index
          => \/ /\ Len(bridges') = Len(bridges) + 1
                /\ last'.op = "play"
                /\ current_track_index' # None
                /\ queue'[current_track_index'[1] + 1] = last'.track
             \/ /\ queue' = <<>>
                /\ current_track_index' = None]_vars

\* the third track is current and the previous-track key asked for the
\* second, which cannot be played: the index stayed
C35_Witness ==
    /\ last.op = "play_failed"
    /\ last.track = 2
    /\ Len(queue) = 3
    /\ current_track_index = Some(2)

(***************************************************************************)
(* C36: with shuffle off and a queue of n >= 1 tracks, next_track (from    *)
(* the key or the auto-advance) asks play() for the track at index         *)
(* (i + 1) mod n, i the current index, or at 0 when no track is current;   *)
(* previous_track asks for the track at i - 1, or at n - 1 when i = 0; the *)
(* index becomes current when the play succeeds.  With an empty queue      *)
(* neither changes anything.                                               *)
(***************************************************************************)
C36_NextAndPreviousTargets ==
    /\ [][(/\ ~shuffle
           /\ queue # <<>>
           /\ (KeyNext \/ (ShouldAdvance /\ ~loopC /\ AutoAdvance)))
          => LET target == IF current_track_index # None
                           THEN (current_track_index[1] + 1) % Len(queue) ELSE 0
             IN /\ last'.op \in {"play", "play_failed"}
                /\ last'.track = queue[target + 1]
                /\ last'.op = "play" => current_track_index' = Some(target)]_vars
    /\ [][(~shuffle /\ queue # <<>> /\ current_track_index # None /\ KeyPrevious)
          => LET target == IF current_track_index[1] = 0
                           THEN Len(queue) - 1 ELSE current_track_index[1] - 1
             IN /\ last'.op \in {"play", "play_failed"}
                /\ last'.track = queue[target + 1]
                /\ last'.op = "play" => current_track_index' = Some(target)]_vars
    /\ [][(queue = <<>> /\ (KeyNext \/ KeyPrevious))
          => UNCHANGED <<now, db, audioVars, playerVars, vizVars, last, vlast>>]_vars

\* Enter on the last of three tracks, then next_track: it wrapped to the first
C36_Witness ==
    /\ ~shuffle
    /\ Len(queue) = 3
    /\ list_state = 2
    /\ [b \in 1..Len(bridges) |-> bridges[b].track] = <<3, 1>>
    /\ current_track_index = Some(0)
    /\ last.op = "play"

(***************************************************************************)
(* C37: the auto-advance step of the main loop changes the player only     *)
(* when is_playing holds, the sink is empty and the queue is non-empty,    *)
(* and it starts a track only then and with the sink not paused; when it   *)
(* fires with loop on it asks play() for the current track and leaves      *)
(* current_track_index as it is, and with loop off it is next_track.       *)
(***************************************************************************)
C37_AutoAdvanceOnlyWhenFinished ==
    /\ [][(pc = "advance" /\ ~(is_playing /\ IsEmpty /\ queue # <<>>))
          => UNCHANGED <<audioVars, playerVars, last>>]_vars
    /\ [][(pc = "advance" /\ Len(bridges') > Len(bridges))
          => (is_playing /\ IsEmpty /\ queue # <<>> /\ ~sink.paused)]_vars
    /\ [][(AutoAdvance /\ ShouldAdvance /\ loopC /\ current_track_index # None)
          => /\ last'.op \in {"play", "play_failed"}
             /\ last'.track = queue[current_track_index[1] + 1]
             /\ current_track_index' = current_track_index]_vars
    /\ [][(AutoAdvance /\ ShouldAdvance /\ ~loopC) => NextTrack]_vars

\* the first of two tracks ended with loop on and the auto-advance has just
\* replayed it
C37_Witness ==
    /\ loopC
    /\ pc = "viz"
    /\ list_state = 1
    /\ Len(queue) = 2
    /\ [b \in 1..Len(bridges) |-> bridges[b].track] = <<1, 1>>
    /\ current_track_index = Some(0)
    /\ last.op = "play"

(***************************************************************************)
(* C38: the main loop and the capture threads never deadlock on the buffer *)
(* locks, with up to MaxPlays capture threads alive at once: at most one   *)
(* thread holds sample_buffer; whoever holds a buffer lock can take its    *)
(* next step at once, and that step or the one after the next gives the    *)
(* lock back, in update_visualizer (which takes audio_buffer while holding *)
(* sample_buffer) as in a capture thread's append; and a thread that       *)
(* cannot step (update_visualizer before its copy or its clear, stop(), a  *)
(* capture thread with a chunk to append) waits for sample_buffer while    *)
(* another thread holds it.                                                *)
(***************************************************************************)
C38_NoDeadlockOnBufferLocks ==
    /\ [](Cardinality({b \in 1..Len(bridges) : Locked(b)})
             + (IF MainHoldsSampleBuffer THEN 1 ELSE 0) <= 1)
    /\ [](\A b \in 1..Len(bridges) : Locked(b) => ENABLED LockBridgeAppend(b))
    /\ [](MainHoldsSampleBuffer => ENABLED LockMainStep)
    /\ [][\A b \in 1..Len(bridges) :
              (Locked(b) /\ bridges'[b] # bridges[b]) => ~Locked(b)']_vars
    /\ [][(MainHoldsSampleBuffer /\ pc' # pc)
          => \/ pc = "copy_s" /\ pc' = "copy_sv"
             \/ pc = "copy_sv" /\ pc' = "copied_s"
             \/ pc = "copied_s" /\ pc' = "clear"]_vars
    /\ []((pc \notin {"event"} /\ ~ENABLED LockMainStep)
             => \E b \in 1..Len(bridges) : Locked(b))
    /\ [](\A b \in 1..Len(bridges) :
              (~bridges[b].done /\ ~ENABLED (LockBridgeAcquire(b) \/ LockBridgeAppend(b)
                                               \/ LockBridgeExit(b)))
                  => (MainHoldsSampleBuffer
                      \/ \E c \in 1..Len(bridges) : c # b /\ Locked(c)))

\* the main loop is about to take sample_buffer for its copy while the first
\* capture thread holds it and a second one has a chunk to append
C38_Witness ==
    /\ pc = "viz"
    /\ is_playing
    /\ Len(bridges) = 2
    /\ Locked(1)
    /\ ~bridges[2].done
    /\ Chunk(2) > 0

==============================================================================
